---- MODULE Spec2Model ----
(***************************************************************************)
(* Skeletal kinematics of src/skinning/Scene.ts (classes Bone and Mesh):   *)
(* local rotations, the rotation and position update passes, the derived   *)
(* per-instance buffers and the ray / bone-cylinder intersection.          *)
(*                                                                         *)
(* Number representation.                                                  *)
(*  - Lengths and positions are integers counted in units of RAY_EPSILON   *)
(*    (.0001), so that 1.0 is the value One.                               *)
(*  - A quaternion <<x, y, z, w>> holds its components in halves: the      *)
(*    tuple <<1, 1, 1, 1>> is the unit quaternion (1/2, 1/2, 1/2, 1/2).    *)
(*    The quaternions used are the 24 Hurwitz units, on which the          *)
(*    quaternion product and the rotation of integer vectors are exact.    *)
(*  - A Mat4 is a tuple of 16 numbers in column-major order, element k of  *)
(*    the source being element k + 1 of the tuple.                         *)
(***************************************************************************)
EXTENDS Integers, Sequences, FiniteSets

\* ------------------------------------------------------------------ bounds

\* Largest number of calls made on one Mesh.
MaxCalls == 3

\* ------------------------------------------------------- program constants

RAY_EPSILON == 1

One == 10000 * RAY_EPSILON

CYL_RADIUS == 700

OFF_SCREEN == 5000 * One

DEFAULT_COLOR == <<1, 0, 0, 1>>

HIGHLIGHT_COLOR == <<0, 0, 0, 0>>

\* Number of instance slots per bone: the bone itself and its 4 handles.
SlotsPerBone == 1 + 4

\* --------------------------------------------------------- Vec3 (lib/TSM)

Vec3sum(a, b) == <<a[1] + b[1], a[2] + b[2], a[3] + b[3]>>

Vec3difference(a, b) == <<a[1] - b[1], a[2] - b[2], a[3] - b[3]>>

\* Sum of the squares of the components, in squared units.
SquaredLength(a) == a[1] * a[1] + a[2] * a[2] + a[3] * a[3]

\* a / b to the nearest whole number, for b > 0.
Round(a, b) == IF 2 * (a % b) >= b THEN (a \div b) + 1 ELSE a \div b

RECURSIVE SqrtBetween(_, _, _)
\* The largest r in lo..hi with r * r <= n, by bisection.
SqrtBetween(n, lo, hi) ==
    IF lo >= hi THEN lo
    ELSE LET mid == (lo + hi + 1) \div 2
         IN IF mid * mid <= n THEN SqrtBetween(n, mid, hi)
            ELSE SqrtBetween(n, lo, mid - 1)

\* Math.sqrt(n) to the nearest whole number.
Sqrt(n) ==
    LET r == SqrtBetween(n, 0, 46340)
    IN IF n - r * r > r THEN r + 1 ELSE r

\* a.length(), in units.
Vec3length(a) == Sqrt(SquaredLength(a))

\* Vec3.dot(a, b) of two vectors in units, in units.
Vec3dot(a, b) == Round(a[1] * b[1] + a[2] * b[2] + a[3] * b[3], One)

\* Vec3.cross(a, b) of two vectors in units, in units.
Vec3cross(a, b) ==
    << Round(a[2] * b[3] - a[3] * b[2], One),
       Round(a[3] * b[1] - a[1] * b[3], One),
       Round(a[1] * b[2] - a[2] * b[1], One) >>

\* The value a.scale(value) leaves in a and returns (scale works in place
\* when it is given no destination); value in units.
Vec3scale(a, value) ==
    << Round(a[1] * value, One), Round(a[2] * value, One),
       Round(a[3] * value, One) >>

\* The value a.normalize() leaves in a and returns (normalize works in
\* place when it is given no destination): a itself when its length is 1,
\* the zero vector when its length is 0, a times 1.0 / length otherwise.
Vec3normalize(a) ==
    LET length == Vec3length(a)
    IN IF length = One THEN a
       ELSE IF length = 0 THEN <<0, 0, 0>>
       ELSE Vec3scale(a, Round(One * One, length))

\* --------------------------------------------------------- Quat (lib/TSM)

QuatIdentity == <<0, 0, 0, 2>>

\* Quat.product(q1, q2): the Hamilton product q1 * q2, a new Quat.
QuatProduct(q1, q2) ==
    << (q1[1] * q2[4] + q1[4] * q2[1] + q1[2] * q2[3] - q1[3] * q2[2]) \div 2,
       (q1[2] * q2[4] + q1[4] * q2[2] + q1[3] * q2[1] - q1[1] * q2[3]) \div 2,
       (q1[3] * q2[4] + q1[4] * q2[3] + q1[1] * q2[2] - q1[2] * q2[1]) \div 2,
       (q1[4] * q2[4] - q1[1] * q2[1] - q1[2] * q2[2] - q1[3] * q2[3]) \div 2 >>

QuatConjugate(q) == <<0 - q[1], 0 - q[2], 0 - q[3], q[4]>>

\* q.multiplyVec3(v): v rotated by q, that is q * v * q^-1, a new Vec3.
QuatMultiplyVec3(q, v) ==
    LET ix == q[4] * v[1] + q[2] * v[3] - q[3] * v[2]
        iy == q[4] * v[2] + q[3] * v[1] - q[1] * v[3]
        iz == q[4] * v[3] + q[1] * v[2] - q[2] * v[1]
        iw == 0 - q[1] * v[1] - q[2] * v[2] - q[3] * v[3]
    IN << (ix * q[4] - iw * q[1] - iy * q[3] + iz * q[2]) \div 4,
          (iy * q[4] - iw * q[2] - iz * q[1] + ix * q[3]) \div 4,
          (iz * q[4] - iw * q[3] - ix * q[2] + iy * q[1]) \div 4 >>

\* q.toMat4(): the rotation matrix of q. The source adds and subtracts the
\* products xx = 2 * x * x, xy = 2 * x * y, ...; a product of two halves
\* doubled is a half of the product of the tuple's components, and only the
\* sums are whole numbers, so each sum is halved as one.
QuatToMat4(q) ==
    LET xx == q[1] * q[1]
        xy == q[1] * q[2]
        xz == q[1] * q[3]
        yy == q[2] * q[2]
        yz == q[2] * q[3]
        zz == q[3] * q[3]
        wx == q[4] * q[1]
        wy == q[4] * q[2]
        wz == q[4] * q[3]
    IN << 1 - (yy + zz) \div 2, (xy + wz) \div 2, (xz - wy) \div 2, 0,
          (xy - wz) \div 2, 1 - (xx + zz) \div 2, (yz + wx) \div 2, 0,
          (xz + wy) \div 2, (yz - wx) \div 2, 1 - (xx + yy) \div 2, 0,
          0, 0, 0, 1 >>

\* --------------------------------------------------------- Mat4 (lib/TSM)

Mat4identity == <<1, 0, 0, 0, 0, 1, 0, 0, 0, 0, 1, 0, 0, 0, 0, 1>>

\* Mat4.product(m1, m2): the matrix product m1 * m2.
Mat4product(m1, m2) ==
    [k \in 1..16 |->
        LET col == (k - 1) \div 4
            row == (k - 1) % 4
        IN  m1[row + 1] * m2[4 * col + 1]
          + m1[4 + row + 1] * m2[4 * col + 2]
          + m1[8 + row + 1] * m2[4 * col + 3]
          + m1[12 + row + 1] * m2[4 * col + 4]]

\* m.multiplyVec4(v).
Mat4multiplyVec4(m, v) ==
    [r \in 1..4 |->
        m[r] * v[1] + m[4 + r] * v[2] + m[8 + r] * v[3] + m[12 + r] * v[4]]

\* new Vec3(v.xyz) of a Vec4.
Xyz(v) == <<v[1], v[2], v[3]>>

\* ------------------------------------------------- loader input (MeshLoader)

\* A point with whole coordinates.
Pt(x, y, z) == <<x * One, y * One, z * One>>

\* One bone record of the loader: the joint at pos, the endpoint at end,
\* the rest pose as the current pose and no rotation.
BoneLoader(parent, children, pos, end) ==
    [parent |-> parent, children |-> children,
     position |-> pos, endpoint |-> end, rotation |-> QuatIdentity,
     initialPosition |-> pos, initialEndpoint |-> end]

\* A chain 0 -> 1 -> 2 with a bend.
ChainBones ==
    [i \in 0..2 |->
        CASE i = 0 -> BoneLoader(-1, <<1>>, Pt(0, 0, 0), Pt(0, 0, 1))
          [] i = 1 -> BoneLoader(0, <<2>>, Pt(0, 0, 1), Pt(0, 1, 1))
          [] i = 2 -> BoneLoader(1, <<>>, Pt(0, 1, 1), Pt(0, 2, 1))]

\* A root away from the origin, stored after its first child, with two
\* children.
ForkBones ==
    [i \in 0..2 |->
        CASE i = 0 -> BoneLoader(1, <<>>, Pt(1, 1, 0), Pt(1, 2, 0))
          [] i = 1 -> BoneLoader(-1, <<0, 2>>, Pt(1, 0, 0), Pt(1, 1, 0))
          [] i = 2 -> BoneLoader(1, <<>>, Pt(2, 0, 0), Pt(2, 0, 1))]

\* Two trees: root 0 with child 2, and the lone root 1.
ForestBones ==
    [i \in 0..2 |->
        CASE i = 0 -> BoneLoader(-1, <<2>>, Pt(0, 0, 0), Pt(1, 0, 0))
          [] i = 1 -> BoneLoader(-1, <<>>, Pt(0, 2, 0), Pt(0, 2, 1))
          [] i = 2 -> BoneLoader(0, <<>>, Pt(1, 0, 0), Pt(1, 0, 1))]

\* One bone: joint (0, 0, 0), endpoint (0, 0, 1).
StickBones ==
    [i \in 0..0 |-> BoneLoader(-1, <<>>, Pt(0, 0, 0), Pt(0, 0, 1))]

\* The skeletons a Mesh is constructed from.
Skeletons == {ChainBones, ForkBones, ForestBones}

\* The rotations a caller passes: none, half a turn about x, a third of a
\* turn about (1, 1, 1).
Deltas == {QuatIdentity, <<2, 0, 0, 0>>, <<1, 1, 1, 1>>}

\* ------------------------------------------------------------------ state

VARIABLES
    bones,           \* Mesh.bones: bone index -> Bone
    roots,           \* Mesh.roots, as bone indices in array order
    highlightedBone, \* Mesh.highlightedBone as a bone index, -1 for null
    calls,           \* number of calls made so far
    last,            \* the last call and the name of the call before it
    pick,            \* the last intersect call: bone, ray and result
    boneIndices,        \* Mesh.boneIndices, element k at k
    bonePositions,      \* Mesh.bonePositions, element k at k
    boneIndexAttribute  \* Mesh.boneIndexAttribute, element k at k

\* The bone-proxy draw buffers.
buffers == <<boneIndices, bonePositions, boneIndexAttribute>>

vars == <<bones, roots, highlightedBone, calls, last, pick, buffers>>

NumBones == Cardinality(DOMAIN bones)

BoneIds == DOMAIN bones

\* ------------------------------------------------------------------- Bone

\* Bone.hasParent.
hasParent(bone) == bone.parent # -1

\* Bone.constructor: every field a copy; rotation and localRot are two
\* copies of the loader's rotation (rotShared: rotation and localRot are
\* one object).
Bone(bone) ==
    [parent |-> bone.parent, children |-> bone.children,
     position |-> bone.position, endpoint |-> bone.endpoint,
     rotation |-> bone.rotation,
     initialPosition |-> bone.initialPosition,
     initialEndpoint |-> bone.initialEndpoint,
     localRot |-> bone.rotation, relativePos |-> Mat4identity,
     rotShared |-> FALSE]

\* rotate that multiplies the Quat held by localRot in place: a rotation
\* that is the same object changes with it.
rotateInPlace(bone, update) ==
    [bone EXCEPT !.localRot = QuatProduct(bone.localRot, update),
                 !.rotation = IF bone.rotShared
                              THEN QuatProduct(bone.localRot, update)
                              ELSE bone.rotation]

\* Bone.rotate(update): localRot becomes a new Quat, the product of the old
\* one and update; an object that rotation shared with localRot stays as it
\* was.
rotate(bone, update) ==
    [bone EXCEPT !.localRot = QuatProduct(bone.localRot, update),
                 !.rotShared = FALSE]

\* What intersect returns for no hit.
NoHit == 0 - 1

\* Stands for the NaN that intersect can return; a distance is never
\* negative.
NotANumber == 0 - 2

\* The absolute value.
Abs(x) == IF x < 0 THEN 0 - x ELSE x

\* a.length() > b.length(), decided on the squares of the lengths: the
\* two lengths of the behind-the-origin test differ by less than a unit.
Longer(a, b) == SquaredLength(a) > SquaredLength(b)

\* Bone.intersect(pos, dir): the distance in units, NoHit, or NotANumber
\* when the ray is parallel to the bone (cross is the zero vector, the
\* quotient is 0 / 0 and no comparison with it holds). cross.normalize()
\* leaves the normalized vector in cross; the first boneDir.scale leaves
\* boneDir scaled, so the second one scales it once more.
intersect(bone, pos, dir) ==
    LET start == bone.position
        end == bone.endpoint
        boneDir == Vec3normalize(QuatMultiplyVec3(
                       bone.rotation, Vec3difference(end, start)))
        cross == Vec3normalize(Vec3cross(dir, boneDir))
        ptDiff == Vec3difference(start, pos)
        distance == Abs(Vec3dot(ptDiff, cross))
        along == Round(Vec3dot(ptDiff, Vec3cross(dir, cross)) * One,
                       Vec3dot(cross, cross))
        boneDirOnce == Vec3scale(boneDir, along)
        q2 == Vec3sum(start, boneDirOnce)
        cylinder == Vec3difference(end, start)
        boneDirTwice == Vec3scale(boneDirOnce, along)
        q1 == Vec3sum(start, boneDirTwice)
    IN IF distance > CYL_RADIUS THEN NoHit
       ELSE IF Vec3dot(cross, cross) = 0 THEN NotANumber
       ELSE IF \/ Longer(Vec3difference(end, q2), cylinder)
               \/ Longer(Vec3difference(start, q2), cylinder)
            THEN NoHit
       ELSE IF Longer(Vec3difference(
                          q1, Vec3sum(pos, Vec3scale(dir, RAY_EPSILON))),
                      Vec3difference(q1, pos))
            THEN NoHit
       ELSE Abs(Vec3length(Vec3difference(q1, pos)))

\* ------------------------------------------------------------------- Mesh

\* setRelativePos that takes the rest joint position itself for every bone.
setRelativePosAbsolute(bs, b) ==
    LET c == bs[b].initialPosition
    IN [bs EXCEPT ![b].relativePos =
            <<1, 0, 0, 0, 0, 1, 0, 0, 0, 0, 1, 0, c[1], c[2], c[3], 1>>]

\* Mesh.setRelativePos applied to bone b of bs.
setRelativePos(bs, b) ==
    LET c == IF hasParent(bs[b])
             THEN Vec3difference(bs[b].initialPosition,
                                 bs[bs[b].parent].initialPosition)
             ELSE bs[b].initialPosition
    IN [bs EXCEPT ![b].relativePos =
            <<1, 0, 0, 0, 0, 1, 0, 0, 0, 0, 1, 0, c[1], c[2], c[3], 1>>]

RECURSIVE setRelativePosFrom(_, _)
\* The constructor's last loop: setRelativePos on bones b, b + 1, ...
setRelativePosFrom(bs, b) ==
    IF b \notin DOMAIN bs THEN bs
    ELSE setRelativePosFrom(setRelativePos(bs, b), b + 1)

\* Mesh.constructor, the bones: one Bone per loader bone, then the
\* relative positions.
ConstructBones(loaded) ==
    setRelativePosFrom([i \in DOMAIN loaded |-> Bone(loaded[i])], 0)

\* Mesh.constructor, the roots: the bones without parent, in array order.
ConstructRoots(loaded) ==
    LET n == Cardinality(DOMAIN loaded)
    IN SelectSeq([k \in 1..n |-> k - 1], LAMBDA i : ~hasParent(loaded[i]))

RECURSIVE updateRotationsRecursively(_, _, _)
RECURSIVE updateRotationsChildren(_, _, _)
\* updateRotationsRecursively with the operands of the product exchanged.
updateRotationsRecursivelySwapped(bs, b, update) ==
    updateRotationsChildren(
        [bs EXCEPT ![b].rotation = QuatProduct(update, bs[b].localRot),
                   ![b].rotShared = FALSE],
        b, 1)

\* Mesh.updateRotationsRecursively(bone, update).
updateRotationsRecursively(bs, b, update) ==
    updateRotationsChildren(
        [bs EXCEPT ![b].rotation = QuatProduct(bs[b].localRot, update),
                   ![b].rotShared = FALSE],
        b, 1)

\* The loop over bone.children, from the k-th child on; each child is
\* given bone.rotation.
updateRotationsChildren(bs, b, k) ==
    IF k > Len(bs[b].children) THEN bs
    ELSE updateRotationsChildren(
             updateRotationsRecursively(bs, bs[b].children[k], bs[b].rotation),
             b, k + 1)

\* updateRotationsRoot that composes localRot onto the rotation the root
\* already has.
updateRotationsRootAccumulating(bs, b) ==
    updateRotationsChildren(
        [bs EXCEPT ![b].rotation = QuatProduct(bs[b].rotation, bs[b].localRot),
                   ![b].rotShared = FALSE],
        b, 1)

\* The body of the forEach of Mesh.updateRotations for one root: rotation
\* becomes the very object localRot.
updateRotationsRoot(bs, b) ==
    updateRotationsChildren(
        [bs EXCEPT ![b].rotation = bs[b].localRot, ![b].rotShared = TRUE],
        b, 1)

RECURSIVE updateRotationsFrom(_, _, _)
updateRotationsFrom(bs, rs, k) ==
    IF k > Len(rs) THEN bs
    ELSE updateRotationsFrom(updateRotationsRoot(bs, rs[k]), rs, k + 1)

\* Mesh.updateRotations.
updateRotations(bs, rs) == updateRotationsFrom(bs, rs, 1)

RECURSIVE updatePositionsRecursively(_, _, _)
RECURSIVE updatePositionsChildren(_, _, _, _)
\* updatePositionsRecursively with the bone's link applied before the
\* parent's chain instead of after it.
updatePositionsRecursivelySwapped(bs, b, update) ==
    LET prod == Mat4product(bs[b].relativePos, QuatToMat4(bs[b].localRot))
        thisUpdate == Mat4product(prod, update)
    IN updatePositionsChildren(
           [bs EXCEPT ![b].position =
                Xyz(Mat4multiplyVec4(thisUpdate, <<0, 0, 0, 1>>))],
           b, 1, thisUpdate)

\* Mesh.updatePositionsRecursively(bone, update).
updatePositionsRecursively(bs, b, update) ==
    LET prod == Mat4product(bs[b].relativePos, QuatToMat4(bs[b].localRot))
        thisUpdate == Mat4product(update, prod)
    IN updatePositionsChildren(
           [bs EXCEPT ![b].position =
                Xyz(Mat4multiplyVec4(thisUpdate, <<0, 0, 0, 1>>))],
           b, 1, thisUpdate)

\* The loop over bone.children, from the k-th child on.
updatePositionsChildren(bs, b, k, update) ==
    IF k > Len(bs[b].children) THEN bs
    ELSE updatePositionsChildren(
             updatePositionsRecursively(bs, bs[b].children[k], update),
             b, k + 1, update)

\* updatePositionsRoot with the root's rotation applied after its offset.
updatePositionsRootRotated(bs, b) ==
    LET update == Mat4product(QuatToMat4(bs[b].localRot), bs[b].relativePos)
    IN updatePositionsChildren(
           [bs EXCEPT ![b].position =
                Xyz(Mat4multiplyVec4(update, <<0, 0, 0, 1>>))],
           b, 1, update)

\* The body of the forEach of Mesh.updatePositions for one root.
updatePositionsRoot(bs, b) ==
    LET update == Mat4product(bs[b].relativePos, QuatToMat4(bs[b].localRot))
    IN updatePositionsChildren(
           [bs EXCEPT ![b].position =
                Xyz(Mat4multiplyVec4(update, <<0, 0, 0, 1>>))],
           b, 1, update)

RECURSIVE updatePositionsFrom(_, _, _)
updatePositionsFrom(bs, rs, k) ==
    IF k > Len(rs) THEN bs
    ELSE updatePositionsFrom(updatePositionsRoot(bs, rs[k]), rs, k + 1)

\* Mesh.updatePositions.
updatePositions(bs, rs) == updatePositionsFrom(bs, rs, 1)

\* Mesh.rotateBone(bone, update).
rotateBone(bs, rs, b, update) ==
    updatePositions(
        updateRotations([bs EXCEPT ![b] = rotate(bs[b], update)], rs), rs)

\* ---------------------------------------------------------------- actions

\* No intersect call made yet.
NoPick == [bone |-> -1, pos |-> <<0, 0, 0>>, dir |-> <<0, 0, 0>>,
           result |-> NoHit]

\* The loader's line indices for its bones: 0 .. 2n - 1, two for each
\* bone, as the sequence Array.from gives.
LoadedBoneIndices(loaded) ==
    [k \in 1..(2 * Cardinality(DOMAIN loaded)) |-> k - 1]

\* The loader's line vertices: for each bone the three coordinates of its
\* joint, then the three of its endpoint.
LoadedBonePositions(loaded) ==
    [k \in 1..(6 * Cardinality(DOMAIN loaded)) |->
        LET bone == loaded[(k - 1) \div 6]
            c == (k - 1) % 6
        IN IF c < 3 THEN bone.position[c + 1] ELSE bone.endpoint[c - 2]]

\* The loader's index attribute: the bone's index on both vertices of its
\* line.
LoadedBoneIndexAttribute(loaded) ==
    [k \in 1..(2 * Cardinality(DOMAIN loaded)) |-> (k - 1) \div 2]

\* The array holding the elements of a sequence, element k at index k.
ArrayFrom(elems) == [k \in 0..(Len(elems) - 1) |-> elems[k + 1]]

\* One round of the boneIndices loop: eight more indices, counted on from
\* the length the array has now.
PushBoneIndices(arr) ==
    LET startIdx == Len(arr)
    IN arr \o <<startIdx, startIdx + 1, startIdx + 2, startIdx + 3,
                startIdx + 4, startIdx + 5, startIdx + 6, startIdx + 7>>

RECURSIVE ExpandBoneIndices(_, _, _)
\* The boneIndices loop from round i on: rounds while i < numBoneIndices / 2.
ExpandBoneIndices(arr, i, numBoneIndices) ==
    IF 2 * i < numBoneIndices
    THEN ExpandBoneIndices(PushBoneIndices(arr), i + 1, numBoneIndices)
    ELSE arr

\* this.boneIndices after the constructor.
ConstructBoneIndices(loaded) ==
    ArrayFrom(ExpandBoneIndices(loaded, 0, Len(loaded)))

\* The six floats of segment i of oldBonePos.
Segment(oldBonePos, i) ==
    <<oldBonePos[6 * i + 1], oldBonePos[6 * i + 2], oldBonePos[6 * i + 3],
      oldBonePos[6 * i + 4], oldBonePos[6 * i + 5], oldBonePos[6 * i + 6]>>

\* One round of the bonePositions loop: the inner loop pushes segment i of
\* oldBonePos four times.
PushBonePositions(newBonePos, oldBonePos, i) ==
    newBonePos \o Segment(oldBonePos, i) \o Segment(oldBonePos, i)
               \o Segment(oldBonePos, i) \o Segment(oldBonePos, i)

RECURSIVE ExpandBonePositions(_, _, _)
\* The bonePositions loop from round i on: rounds while
\* i < oldBonePos.length / 6.
ExpandBonePositions(newBonePos, oldBonePos, i) ==
    IF 6 * i < Len(oldBonePos)
    THEN ExpandBonePositions(PushBonePositions(newBonePos, oldBonePos, i),
                             oldBonePos, i + 1)
    ELSE newBonePos

\* this.bonePositions after the constructor.
ConstructBonePositions(loaded) ==
    ArrayFrom(ExpandBonePositions(loaded, loaded, 0))

\* PushBoneIndexAttribute counting on from the length of the array, not
\* from half of it.
PushBoneIndexAttributeByLength(arr) ==
    LET idxAttr == Len(arr)
    IN arr \o <<idxAttr, idxAttr, idxAttr + 1, idxAttr + 1,
                idxAttr + 2, idxAttr + 2, idxAttr + 3, idxAttr + 3>>

\* One round of the boneIndexAttribute loop: four more attribute values,
\* each on two vertices, counted on from half the length the array has
\* now (the length is even in every round).
PushBoneIndexAttribute(arr) ==
    LET idxAttr == Len(arr) \div 2
    IN arr \o <<idxAttr, idxAttr, idxAttr + 1, idxAttr + 1,
                idxAttr + 2, idxAttr + 2, idxAttr + 3, idxAttr + 3>>

RECURSIVE ExpandBoneIndexAttribute(_, _, _)
\* The boneIndexAttribute loop from round i on: rounds while
\* i < numIndexAttrs / 2.
ExpandBoneIndexAttribute(arr, i, numIndexAttrs) ==
    IF 2 * i < numIndexAttrs
    THEN ExpandBoneIndexAttribute(PushBoneIndexAttribute(arr), i + 1,
                                  numIndexAttrs)
    ELSE arr

\* this.boneIndexAttribute after the constructor.
ConstructBoneIndexAttribute(loaded) ==
    ArrayFrom(ExpandBoneIndexAttribute(loaded, 0, Len(loaded)))

\* The record of a call: its name, bone and rotation, and the name of the
\* call made before it.
Call(op, b, d) == [op |-> op, bone |-> b, delta |-> d, before |-> last.op]

Init ==
    \E loaded \in Skeletons :
        /\ bones = ConstructBones(loaded)
        /\ roots = ConstructRoots(loaded)
        /\ highlightedBone = -1
        /\ calls = 0
        /\ last = [op |-> "constructor", bone |-> -1, delta |-> QuatIdentity,
                   before |-> "none"]
        /\ pick = NoPick
        /\ boneIndices = ConstructBoneIndices(LoadedBoneIndices(loaded))
        /\ bonePositions = ConstructBonePositions(LoadedBonePositions(loaded))
        /\ boneIndexAttribute =
               ConstructBoneIndexAttribute(LoadedBoneIndexAttribute(loaded))

\* A caller runs mesh.rotateBone(mesh.bones[b], d).
RotateBone(b, d) ==
    /\ calls < MaxCalls
    /\ bones' = rotateBone(bones, roots, b, d)
    /\ calls' = calls + 1
    /\ last' = Call("rotateBone", b, d)
    /\ UNCHANGED <<roots, highlightedBone, pick, buffers>>

\* A caller assigns mesh.highlightedBone: a bone of the mesh, or null.
SetHighlight(h) ==
    /\ calls < MaxCalls
    /\ h # highlightedBone
    /\ highlightedBone' = h
    /\ calls' = calls + 1
    /\ last' = Call("highlight", h, QuatIdentity)
    /\ UNCHANGED <<bones, roots, pick, buffers>>

Next ==
    \/ \E b \in BoneIds, d \in Deltas : RotateBone(b, d)
    \/ \E h \in BoneIds \cup {-1} : SetHighlight(h)

Spec == Init /\ [][Next]_vars

\* A caller runs mesh.bones[b].rotate(d) and nothing else.
BoneRotate(b, d) ==
    /\ calls < MaxCalls
    /\ bones' = [bones EXCEPT ![b] = rotate(bones[b], d)]
    /\ calls' = calls + 1
    /\ last' = Call("rotate", b, d)
    /\ UNCHANGED <<roots, highlightedBone, pick, buffers>>

\* A caller runs mesh.updateRotations().
UpdateRotations ==
    /\ calls < MaxCalls
    /\ bones' = updateRotations(bones, roots)
    /\ calls' = calls + 1
    /\ last' = Call("updateRotations", -1, QuatIdentity)
    /\ UNCHANGED <<roots, highlightedBone, pick, buffers>>

\* A caller runs mesh.updatePositions().
UpdatePositions ==
    /\ calls < MaxCalls
    /\ bones' = updatePositions(bones, roots)
    /\ calls' = calls + 1
    /\ last' = Call("updatePositions", -1, QuatIdentity)
    /\ UNCHANGED <<roots, highlightedBone, pick, buffers>>

\* A caller runs the update pass: updateRotations, then updatePositions.
UpdatePass ==
    /\ calls < MaxCalls
    /\ bones' = updatePositions(updateRotations(bones, roots), roots)
    /\ calls' = calls + 1
    /\ last' = Call("updatePass", -1, QuatIdentity)
    /\ UNCHANGED <<roots, highlightedBone, pick, buffers>>

NextBone ==
    \/ Next
    \/ \E b \in BoneIds, d \in Deltas : BoneRotate(b, d)
    \/ UpdateRotations
    \/ UpdatePositions
    \/ UpdatePass

\* The Mesh with the methods of Bone and the two passes called one by one.
SpecBone == Init /\ [][NextBone]_vars

\* -------------------------------------------------------- derived buffers

\* The last of the writes ws made at index i, 0 when there is none; a
\* write is a pair <<index, value>>.
LastWrite(ws, i) ==
    LET at == {k \in 1..Len(ws) : ws[k][1] = i}
    IN IF at = {} THEN 0
       ELSE ws[CHOOSE k \in at : \A j \in at : j <= k][2]

\* new Float32Array(length) after the writes ws: every element is 0 until
\* it is written, and a write outside the array is dropped.
Float32Array(length, ws) == [i \in 0..(length - 1) |-> LastWrite(ws, i)]

\* The two handle directions of getBoneTranslations for a bone, each of
\* length CYL_RADIUS: dir1 is a fixed vector made perpendicular to the
\* bone's direction, dir2 the cross product of dir1 and boneVec. boneVec
\* has been scaled in place by the time dir2 is taken.
HandleDirs(bone) ==
    LET boneVec == Vec3normalize(QuatMultiplyVec3(
                       bone.rotation,
                       Vec3difference(bone.endpoint, bone.position)))
        dirA == Vec3normalize(<<6132, 1260, 3528>>)
        scaled == Vec3scale(boneVec, Vec3dot(dirA, boneVec))
        dirB == Vec3normalize(Vec3difference(dirA, scaled))
        dirC == Vec3normalize(Vec3cross(dirB, scaled))
    IN [dir1 |-> Vec3scale(dirB, CYL_RADIUS),
        dir2 |-> Vec3scale(dirC, CYL_RADIUS)]

\* TranslationWrites with the handles placed about the bone's endpoint.
TranslationWritesAboutEndpoint(bs, hl, index) ==
    LET numbones == Cardinality(DOMAIN bs)
        res == bs[index].position
        tip == bs[index].endpoint
        base == (3 * numbones) + (12 * index)
        d == HandleDirs(bs[index])
    IN [i \in 1..3 |-> <<3 * index + (i - 1), res[i]>>]
       \o (IF index = hl
           THEN [i \in 1..3 |-> <<base + 0 + (i - 1), tip[i] + d.dir1[i]>>]
                \o [i \in 1..3 |-> <<base + 3 + (i - 1), tip[i] - d.dir1[i]>>]
                \o [i \in 1..3 |-> <<base + 6 + (i - 1), tip[i] + d.dir2[i]>>]
                \o [i \in 1..3 |-> <<base + 9 + (i - 1), tip[i] - d.dir2[i]>>]
           ELSE [k \in 1..12 |->
                    << base + 3 * ((k - 1) % 4) + ((k - 1) \div 4),
                       OFF_SCREEN >>])

\* The writes getBoneTranslations makes for the bone at index: its
\* position, then its four handle slots.
TranslationWrites(bs, hl, index) ==
    LET numbones == Cardinality(DOMAIN bs)
        res == bs[index].position
        base == (3 * numbones) + (12 * index)
        d == HandleDirs(bs[index])
    IN [i \in 1..3 |-> <<3 * index + (i - 1), res[i]>>]
       \o (IF index = hl
           THEN [i \in 1..3 |-> <<base + 0 + (i - 1), res[i] + d.dir1[i]>>]
                \o [i \in 1..3 |-> <<base + 3 + (i - 1), res[i] - d.dir1[i]>>]
                \o [i \in 1..3 |-> <<base + 6 + (i - 1), res[i] + d.dir2[i]>>]
                \o [i \in 1..3 |-> <<base + 9 + (i - 1), res[i] - d.dir2[i]>>]
           ELSE [k \in 1..12 |->
                    << base + 3 * ((k - 1) % 4) + ((k - 1) \div 4),
                       OFF_SCREEN >>])

RECURSIVE TranslationWritesFrom(_, _, _)
\* The writes of the forEach of getBoneTranslations for the bones from
\* index on.
TranslationWritesFrom(bs, hl, index) ==
    IF index \notin DOMAIN bs THEN <<>>
    ELSE TranslationWrites(bs, hl, index)
           \o TranslationWritesFrom(bs, hl, index + 1)

\* The length for the bones and one set of 4 handles.
TranslationsLengthOneWidget(bs) == 3 * (Cardinality(DOMAIN bs) + 4)

\* The length of the array getBoneTranslations allocates.
TranslationsLength(bs) == 3 * (Cardinality(DOMAIN bs) * SlotsPerBone)

\* Mesh.getBoneTranslations.
getBoneTranslations(bs, hl) ==
    Float32Array(TranslationsLength(bs), TranslationWritesFrom(bs, hl, 0))

\* The writes getBoneRotations makes for the bone at index: for each
\* component, the bone's slot and its four handle slots.
RotationWrites(bs, index) ==
    LET numbones == Cardinality(DOMAIN bs)
        res == bs[index].rotation
        base == (4 * numbones) + (16 * index)
    IN [k \in 1..20 |->
           LET comp == (k - 1) \div 5
               slot == (k - 1) % 5
           IN IF slot = 0 THEN <<4 * index + comp, res[comp + 1]>>
              ELSE <<base + 4 * (slot - 1) + comp, res[comp + 1]>>]

RECURSIVE RotationWritesFrom(_, _)
\* The writes of the forEach of getBoneRotations for the bones from index
\* on.
RotationWritesFrom(bs, index) ==
    IF index \notin DOMAIN bs THEN <<>>
    ELSE RotationWrites(bs, index) \o RotationWritesFrom(bs, index + 1)

\* The length of the array getBoneRotations allocates.
RotationsLength(bs) == 4 * (Cardinality(DOMAIN bs) * SlotsPerBone)

\* Mesh.getBoneRotations.
getBoneRotations(bs) ==
    Float32Array(RotationsLength(bs), RotationWritesFrom(bs, 0))

\* The writes getBoneHighlights makes for the bone at index.
HighlightWrites(bs, hl, index) ==
    LET color == IF index = hl THEN HIGHLIGHT_COLOR ELSE DEFAULT_COLOR
    IN [i \in 1..4 |-> <<4 * index + (i - 1), color[i]>>]

RECURSIVE HighlightWritesFrom(_, _, _)
\* The writes of the forEach of getBoneHighlights for the bones from index
\* on.
HighlightWritesFrom(bs, hl, index) ==
    IF index \notin DOMAIN bs THEN <<>>
    ELSE HighlightWrites(bs, hl, index)
           \o HighlightWritesFrom(bs, hl, index + 1)

\* The length of the array getBoneHighlights allocates.
HighlightsLength(bs) == 4 * (Cardinality(DOMAIN bs) * SlotsPerBone)

\* Mesh.getBoneHighlights.
getBoneHighlights(bs, hl) ==
    Float32Array(HighlightsLength(bs), HighlightWritesFrom(bs, hl, 0))

\* Mesh.highlightedBoneIndex.
highlightedBoneIndex(bs, hl) ==
    IF hl = -1 THEN -1
    ELSE IF hl \in DOMAIN bs THEN hl ELSE -1

\* ----------------------------------------------------------------- picking

\* The ray origins a caller passes: on, beside and beyond the pick cylinder
\* of a bone along z at the origin.
RayOrigins ==
    {<<x, y, z>> : x \in {0 - (CYL_RADIUS + 100), 0, CYL_RADIUS + 100, One},
                   y \in {0, 500},
                   z \in {5000, 15000}}

\* The ray directions a caller passes: the unit vectors along the axes.
RayDirs ==
    {<<One, 0, 0>>, <<0 - One, 0, 0>>, <<0, One, 0>>, <<0, 0 - One, 0>>,
     <<0, 0, One>>, <<0, 0, 0 - One>>}

InitIntersect ==
    \E loaded \in {StickBones, ChainBones} :
        /\ bones = ConstructBones(loaded)
        /\ roots = ConstructRoots(loaded)
        /\ highlightedBone = -1
        /\ calls = 0
        /\ last = [op |-> "constructor", bone |-> -1, delta |-> QuatIdentity,
                   before |-> "none"]
        /\ pick = NoPick
        /\ boneIndices = ConstructBoneIndices(LoadedBoneIndices(loaded))
        /\ bonePositions = ConstructBonePositions(LoadedBonePositions(loaded))
        /\ boneIndexAttribute =
               ConstructBoneIndexAttribute(LoadedBoneIndexAttribute(loaded))

\* A caller runs mesh.bones[b].intersect(pos, dir) and keeps the result.
Intersect(b, pos, dir) ==
    /\ pick' = [bone |-> b, pos |-> pos, dir |-> dir,
                result |-> intersect(bones[b], pos, dir)]
    /\ last' = Call("intersect", b, QuatIdentity)
    /\ UNCHANGED <<bones, roots, highlightedBone, calls, buffers>>

NextIntersect ==
    \E b \in BoneIds, pos \in RayOrigins, dir \in RayDirs :
        Intersect(b, pos, dir)

\* Picking on a skeleton in its rest pose.
SpecIntersect == InitIntersect /\ [][NextIntersect]_vars

\* ----------------------------------------------------- forward kinematics

\* The translation by c, as setRelativePos writes it.
Translation(c) ==
    <<1, 0, 0, 0, 0, 1, 0, 0, 0, 0, 1, 0, c[1], c[2], c[3], 1>>

\* The rest offset of bone b: its rest joint position, taken from its
\* parent's rest joint position when it has a parent.
RestOffset(b) ==
    IF hasParent(bones[b])
    THEN Vec3difference(bones[b].initialPosition,
                        bones[bones[b].parent].initialPosition)
    ELSE bones[b].initialPosition

RECURSIVE ChainTransform(_)
\* chain(root) = relativePos(root) * R(localRot(root)),
\* chain(child) = chain(parent) * relativePos(child) * R(localRot(child)).
ChainTransform(b) ==
    LET link == Mat4product(Translation(RestOffset(b)),
                            QuatToMat4(bones[b].localRot))
    IN IF hasParent(bones[b])
       THEN Mat4product(ChainTransform(bones[b].parent), link)
       ELSE link

RECURSIVE AncestorRotation(_)
\* The product of the local rotations of the proper ancestors of b, the
\* root's first (outermost).
AncestorRotation(b) ==
    IF hasParent(bones[b])
    THEN QuatProduct(AncestorRotation(bones[b].parent),
                     bones[bones[b].parent].localRot)
    ELSE QuatIdentity

RECURSIVE RootOf(_)
RootOf(b) == IF hasParent(bones[b]) THEN RootOf(bones[b].parent) ELSE b

RECURSIVE Depth(_)
Depth(b) == IF hasParent(bones[b]) THEN 1 + Depth(bones[b].parent) ELSE 0

\* q denotes no rotation (q is 1 or -1).
IsIdentityRotation(q) == QuatToMat4(q) = Mat4identity

Origin4 == <<0, 0, 0, 1>>

\* ----------------------------------------------------------------- claims

\* C1: after any sequence of rotateBone calls every root has
\* rotation = localRot and every other bone b has
\* rotation(b) = product(localRot(b), rotation(parent(b))).
C1_WorldRotations ==
    \A b \in BoneIds :
        bones[b].rotation =
            IF hasParent(bones[b])
            THEN QuatProduct(bones[b].localRot, bones[bones[b].parent].rotation)
            ELSE bones[b].localRot

\* A rotateBone call has left a bone of depth 2 whose local rotation and
\* whose parent's world rotation do not commute, below a rotated root.
C1_Witness ==
    /\ last.op = "rotateBone"
    /\ \E b \in BoneIds :
        /\ Depth(b) = 2
        /\ ~IsIdentityRotation(bones[RootOf(b)].localRot)
        /\ QuatProduct(bones[b].localRot, bones[bones[b].parent].rotation)
             # QuatProduct(bones[bones[b].parent].rotation, bones[b].localRot)

\* C2: after any sequence of rotateBone calls every joint position is the
\* image of the origin under the bone's chain transform, and a child's
\* joint is its parent's joint plus the rest offset rotated by the local
\* rotations of the child's proper ancestors; the bone's own local
\* rotation is no part of it.
C2_JointPositions ==
    \A b \in BoneIds :
        /\ bones[b].position = Xyz(Mat4multiplyVec4(ChainTransform(b), Origin4))
        /\ bones[b].position =
            IF hasParent(bones[b])
            THEN Vec3sum(bones[bones[b].parent].position,
                         QuatMultiplyVec3(AncestorRotation(b), RestOffset(b)))
            ELSE bones[b].initialPosition

\* A rotateBone call has moved a bone of depth 2 away from its rest joint
\* position while that bone and its parent carry a rotation themselves.
C2_Witness ==
    /\ last.op = "rotateBone"
    /\ \E b \in BoneIds :
        /\ Depth(b) = 2
        /\ bones[b].position # bones[b].initialPosition
        /\ bones[bones[b].parent].position
             # bones[bones[b].parent].initialPosition
        /\ ~IsIdentityRotation(bones[b].localRot)
        /\ ~IsIdentityRotation(bones[bones[b].parent].localRot)

\* C3: in every state reached by rotateBone calls the joint position, the
\* endpoint and the world rotation of every bone agree with the current
\* local rotations: the endpoint is the rest endpoint carried by the chain
\* transform that placed the joint.
C3_DerivedFieldsConsistent ==
    \A b \in BoneIds :
        /\ bones[b].position = Xyz(Mat4multiplyVec4(ChainTransform(b), Origin4))
        /\ bones[b].endpoint =
             Xyz(Mat4multiplyVec4(
                 ChainTransform(b),
                 << bones[b].initialEndpoint[1] - bones[b].initialPosition[1],
                    bones[b].initialEndpoint[2] - bones[b].initialPosition[2],
                    bones[b].initialEndpoint[3] - bones[b].initialPosition[3],
                    1 >>))
        /\ bones[b].rotation =
            IF hasParent(bones[b])
            THEN QuatProduct(bones[b].localRot, bones[bones[b].parent].rotation)
            ELSE bones[b].localRot

\* The position of the joint of bone b.
Joint(b) == bones[b].position

\* The square of the distance between the joints of a and b.
JointDistance2(a, b) == SquaredLength(Vec3difference(Joint(a), Joint(b)))

\* The square of the distance between the rest joints of a and b.
RestDistance2(a, b) ==
    SquaredLength(Vec3difference(bones[a].initialPosition,
                                 bones[b].initialPosition))

\* The calls that end with updatePositions, and those that end with both
\* passes.
PositionCalls == {"rotateBone", "updatePass", "updatePositions"}

PassCalls == {"rotateBone", "updatePass"}

\* C4: Bone.rotate(delta) on its own replaces localRot by
\* product(localRot, delta) and changes nothing else: not the bone's world
\* rotation, joint or endpoint (also when an update pass has made the
\* root's rotation the object localRot), and no field of another bone; the
\* derived fields change only in updateRotations and updatePositions.
C4_RotateAlone ==
    [][ /\ (last'.op = "rotate" /\ calls' = calls + 1) =>
            LET b == last'.bone
            IN /\ bones'[b].localRot
                    = QuatProduct(bones[b].localRot, last'.delta)
               /\ bones'[b].rotation = bones[b].rotation
               /\ bones'[b].position = bones[b].position
               /\ bones'[b].endpoint = bones[b].endpoint
               /\ bones'[b].relativePos = bones[b].relativePos
               /\ bones'[b].parent = bones[b].parent
               /\ bones'[b].children = bones[b].children
               /\ \A c \in BoneIds \ {b} : bones'[c] = bones[c]
        /\ (last'.op \in {"rotate", "highlight"}) =>
            \A c \in BoneIds :
                /\ bones'[c].rotation = bones[c].rotation
                /\ bones'[c].position = bones[c].position
                /\ bones'[c].endpoint = bones[c].endpoint
      ]_vars

\* Bone.rotate has been called alone on a root whose rotation an earlier
\* update pass had set to its then localRot, and the two now differ.
C4_Witness ==
    /\ last.op = "rotate"
    /\ last.before \in PassCalls
    /\ ~hasParent(bones[last.bone])
    /\ bones[last.bone].children # <<>>
    /\ ~IsIdentityRotation(bones[last.bone].rotation)
    /\ bones[last.bone].localRot # bones[last.bone].rotation

\* C5: after an update pass a root whose local rotation is the identity
\* has its joint at its rest joint position, and when all local rotations
\* are the identity every bone has, at any depth.
C5_RestPose ==
    last.op \in PositionCalls =>
        /\ \A b \in BoneIds :
            (~hasParent(bones[b]) /\ IsIdentityRotation(bones[b].localRot))
                => bones[b].position = bones[b].initialPosition
        /\ (\A b \in BoneIds : IsIdentityRotation(bones[b].localRot))
                => \A b \in BoneIds :
                       bones[b].position = bones[b].initialPosition

\* An update pass has run on a skeleton with a bone of depth 2 while every
\* local rotation is the identity, one of them after two half turns.
C5_Witness ==
    /\ last.op \in PositionCalls
    /\ \A b \in BoneIds : IsIdentityRotation(bones[b].localRot)
    /\ \E b \in BoneIds : Depth(b) = 2
    /\ \E b \in BoneIds : bones[b].localRot = <<0, 0, 0, -2>>

\* C6 as stated: the distance between the joints of any two bones of one
\* chain is what it is in the rest pose, whatever rotateBone calls were
\* made.
C6_AllDistancesKept ==
    \A a \in BoneIds, b \in BoneIds :
        RootOf(a) = RootOf(b) => JointDistance2(a, b) = RestDistance2(a, b)

\* The distance between a bone's joint and its parent's joint is the rest
\* distance.
LinkLengthsKept ==
    \A b \in BoneIds :
        hasParent(bones[b]) =>
            JointDistance2(b, bones[b].parent)
                = RestDistance2(b, bones[b].parent)

\* A rotateBone call on a root r with rotation Q leaves r's joint where it
\* is, turns the joints of r's tree about it by one rotation (Q taken to
\* the world by r's local rotation), keeps every distance inside the tree
\* and moves no joint of another tree.
RootTurnsRigidly ==
    (/\ last'.op = "rotateBone"
     /\ calls' = calls + 1
     /\ ~hasParent(bones[last'.bone])) =>
        LET r == last'.bone
            turn == QuatProduct(
                        QuatProduct(bones[r].localRot, last'.delta),
                        QuatConjugate(bones[r].localRot))
        IN /\ bones'[r].position = bones[r].position
           /\ \A d \in BoneIds :
                IF RootOf(d) = r
                THEN Vec3difference(bones'[d].position, bones[r].position)
                       = QuatMultiplyVec3(
                             turn,
                             Vec3difference(bones[d].position,
                                            bones[r].position))
                ELSE bones'[d].position = bones[d].position
           /\ \A a \in BoneIds, b \in BoneIds :
                (RootOf(a) = r /\ RootOf(b) = r) =>
                    SquaredLength(Vec3difference(bones'[a].position,
                                                 bones'[b].position))
                        = JointDistance2(a, b)

\* C6, amended: rotateBone on a root turns the root's tree rigidly about
\* the root's joint, and under any rotateBone calls every bone stays at its
\* rest distance from its parent.
C6_RigidAboutRoot == [][RootTurnsRigidly]_vars /\ []LinkLengthsKept

\* rotateBone has turned a root that is not at the origin and already
\* carried a rotation, and a child of it is away from its rest position.
C6_Witness ==
    /\ last.op = "rotateBone"
    /\ ~hasParent(bones[last.bone])
    /\ ~IsIdentityRotation(last.delta)
    /\ last.before = "rotateBone"
    /\ bones[last.bone].localRot # last.delta
    /\ bones[last.bone].initialPosition # <<0, 0, 0>>
    /\ \E d \in BoneIds :
        /\ bones[d].parent = last.bone
        /\ bones[d].position # bones[d].initialPosition

\* C7: an update pass run right after an update pass changes no rotation
\* and no position, and the three derived buffers come out the same.
C7_PassIdempotent ==
    [][ (/\ last.op \in PassCalls
         /\ last'.op = "updatePass"
         /\ calls' = calls + 1) =>
            /\ \A b \in BoneIds :
                /\ bones'[b].rotation = bones[b].rotation
                /\ bones'[b].position = bones[b].position
            /\ getBoneTranslations(bones', highlightedBone')
                 = getBoneTranslations(bones, highlightedBone)
            /\ getBoneRotations(bones') = getBoneRotations(bones)
            /\ getBoneHighlights(bones', highlightedBone')
                 = getBoneHighlights(bones, highlightedBone)
      ]_vars

\* The update pass has run twice in a row on a posed skeleton: a bone
\* below the root has a rotation of its own and its child is off its rest
\* position.
C7_Witness ==
    /\ last.op = "updatePass"
    /\ last.before = "updatePass"
    /\ \E b \in BoneIds, c \in BoneIds :
        /\ hasParent(bones[b])
        /\ ~IsIdentityRotation(bones[b].localRot)
        /\ bones[c].parent = b
        /\ bones[c].position # bones[c].initialPosition

\* The RGBA entry e of a colour buffer.
Rgba(buf, e) == <<buf[4 * e], buf[4 * e + 1], buf[4 * e + 2], buf[4 * e + 3]>>

\* C9: the buffer of getBoneHighlights holds HIGHLIGHT_COLOR at the entry
\* of the highlighted bone and DEFAULT_COLOR at every other entry up to
\* the buffer's length; with no bone highlighted every entry is
\* DEFAULT_COLOR.
C9_HighlightExclusive ==
    LET buf == getBoneHighlights(bones, highlightedBone)
    IN \A e \in 0..((HighlightsLength(bones) \div 4) - 1) :
           Rgba(buf, e) = IF e = highlightedBone THEN HIGHLIGHT_COLOR
                          ELSE DEFAULT_COLOR

\* The indices written by a sequence of writes.
WrittenIndices(ws) == {ws[k][1] : k \in 1..Len(ws)}

\* C10: with n bones the three buffers have lengths 3 * 5n, 4 * 5n and
\* 4 * 5n, and every index the three generators write, for every bone,
\* lies inside its buffer.
C10_BufferSizes ==
    LET n == NumBones
        S == 5 * n
        t == getBoneTranslations(bones, highlightedBone)
        r == getBoneRotations(bones)
        h == getBoneHighlights(bones, highlightedBone)
    IN /\ DOMAIN t = 0..(3 * S - 1)
       /\ DOMAIN r = 0..(4 * S - 1)
       /\ DOMAIN h = 0..(4 * S - 1)
       /\ \A index \in BoneIds :
            /\ WrittenIndices(TranslationWrites(bones, highlightedBone, index))
                 \subseteq DOMAIN t
            /\ WrittenIndices(RotationWrites(bones, index)) \subseteq DOMAIN r
            /\ WrittenIndices(HighlightWrites(bones, highlightedBone, index))
                 \subseteq DOMAIN h

\* A bone is highlighted on a posed skeleton, and the handle writes of the
\* last bone reach the last element of the translation and rotation
\* buffers.
C10_Witness ==
    /\ highlightedBone = NumBones - 1
    /\ \E b \in BoneIds : ~IsIdentityRotation(bones[b].rotation)
    /\ (3 * 5 * NumBones) - 1
         \in WrittenIndices(
                 TranslationWrites(bones, highlightedBone, NumBones - 1))
    /\ (4 * 5 * NumBones) - 1
         \in WrittenIndices(RotationWrites(bones, NumBones - 1))

\* The point of the ray from pos along dir that is closest to the axis of
\* bone: pos + s * dir with s = dot(start - pos, boneDir x n) / dot(n, n),
\* n = dir x boneDir.
RayPointClosestToAxis(bone, pos, dir) ==
    LET boneDir == Vec3normalize(QuatMultiplyVec3(
                       bone.rotation,
                       Vec3difference(bone.endpoint, bone.position)))
        n == Vec3cross(dir, boneDir)
        s == Round(Vec3dot(Vec3difference(bone.position, pos),
                           Vec3cross(boneDir, n)) * One,
                   Vec3dot(n, n))
    IN Vec3sum(pos, Vec3scale(dir, s))

\* C8: a hit reports the distance from the ray origin to the point of the
\* ray closest to the bone axis; on the bone from (0, 0, 0) to (0, 0, 1)
\* the ray from (r + 0.01, 0, 0.5) along (-1, 0, 0) hits at about 0.01 and
\* the ray from (0, 0, 0.5) along (1, 0, 0) does not hit.
C8_HitDistance ==
    pick.bone # -1 =>
        LET bone == bones[pick.bone]
            onStick == /\ bone.position = <<0, 0, 0>>
                       /\ bone.endpoint = <<0, 0, One>>
                       /\ bone.rotation = QuatIdentity
        IN /\ pick.result \notin {NoHit, NotANumber} =>
                pick.result = Vec3length(Vec3difference(
                    RayPointClosestToAxis(bone, pick.pos, pick.dir), pick.pos))
           /\ (/\ onStick
               /\ pick.pos = <<CYL_RADIUS + 100, 0, 5000>>
               /\ pick.dir = <<0 - One, 0, 0>>) =>
                (pick.result >= 0 /\ Abs(pick.result - 100) <= 10)
           /\ (/\ onStick
               /\ pick.pos = <<0, 0, 5000>>
               /\ pick.dir = <<One, 0, 0>>) =>
                pick.result = NoHit

\* The point written to handle h of bone i in the translation buffer buf:
\* the 3 elements from 3n + 12i + 3h on.
Handle(buf, i, h) ==
    LET at == (3 * NumBones) + (12 * i) + (3 * h)
    IN <<buf[at], buf[at + 1], buf[at + 2]>>

\* The handles of every bone but the highlighted one are OFF_SCREEN in
\* all three components.
OtherHandlesOffScreen ==
    LET buf == getBoneTranslations(bones, highlightedBone)
    IN \A i \in BoneIds \ {highlightedBone} :
           \A h \in 0..3 :
               Handle(buf, i, h) = <<OFF_SCREEN, OFF_SCREEN, OFF_SCREEN>>

\* C11 as stated: the four handles of the highlighted bone B lie
\* symmetrically (+d1, -d1, +d2, -d2) about the midpoint
\* (position(B) + endpoint(B)) / 2, and the handles of every other bone
\* are OFF_SCREEN.
C11_HandlesAboutMidpoint ==
    LET buf == getBoneTranslations(bones, highlightedBone)
    IN /\ highlightedBone # -1 =>
            LET twice == Vec3sum(bones[highlightedBone].position,
                                 bones[highlightedBone].endpoint)
            IN /\ Vec3sum(Handle(buf, highlightedBone, 0),
                          Handle(buf, highlightedBone, 1)) = twice
               /\ Vec3sum(Handle(buf, highlightedBone, 2),
                          Handle(buf, highlightedBone, 3)) = twice
       /\ OtherHandlesOffScreen

\* C11, amended: the four handles of the highlighted bone B lie
\* symmetrically about the joint position(B), and the handles of every
\* other bone are OFF_SCREEN.
C11_HandlesAboutJoint ==
    LET buf == getBoneTranslations(bones, highlightedBone)
    IN /\ highlightedBone # -1 =>
            LET twice == Vec3sum(bones[highlightedBone].position,
                                 bones[highlightedBone].position)
            IN /\ Vec3sum(Handle(buf, highlightedBone, 0),
                          Handle(buf, highlightedBone, 1)) = twice
               /\ Vec3sum(Handle(buf, highlightedBone, 2),
                          Handle(buf, highlightedBone, 3)) = twice
       /\ OtherHandlesOffScreen

\* A bone that a rotation has moved off its rest joint is highlighted and
\* its four handles are four different points.
C11_Witness ==
    /\ highlightedBone # -1
    /\ bones[highlightedBone].position
         # bones[highlightedBone].initialPosition
    /\ LET buf == getBoneTranslations(bones, highlightedBone)
       IN Cardinality({Handle(buf, highlightedBone, h) : h \in 0..3}) = 4

\* The index attribute of the h-th appended segment of bone i, if both
\* of its vertices carry the same one; -1 otherwise.
HandleSlot(i, h) ==
    LET v == 2 * (NumBones + 4 * i + h)
    IN IF boneIndexAttribute[v] = boneIndexAttribute[v + 1]
       THEN boneIndexAttribute[v]
       ELSE -1

\* The elements of a buffer of a given stride that belong to the handle
\* slots of bone i.
HandleSlotElements(i, stride) ==
    {stride * HandleSlot(i, h) + c : h \in 0..3, c \in 0..(stride - 1)}

\* The elements of a buffer of a given stride that belong to the slot of
\* bone i itself.
BoneSlotElements(i, stride) == {stride * i + c : c \in 0..(stride - 1)}

\* The three draw buffers in any state: 5 segments for each bone, new
\* indices all different and from 2n on, four copies of each bone's
\* segment, and the index attribute of copy h of bone i is n + 4i + h, the
\* slot getBoneTranslations and getBoneRotations fill for handle h of bone i.
BuffersExpanded ==
    LET n == NumBones
        appended == (2 * n)..(10 * n - 1)
    IN /\ DOMAIN boneIndices = 0..(10 * n - 1)
       /\ DOMAIN bonePositions = 0..(30 * n - 1)
       /\ DOMAIN boneIndexAttribute = 0..(10 * n - 1)
       /\ \A k \in appended : boneIndices[k] \in appended
       /\ \A k, l \in appended :
              k # l => boneIndices[k] # boneIndices[l]
       /\ \A i \in BoneIds, h \in 0..3, c \in 0..5 :
              bonePositions[6 * (n + 4 * i + h) + c] = bonePositions[6 * i + c]
       /\ \A i \in BoneIds, h \in 0..3 : HandleSlot(i, h) = n + 4 * i + h
       /\ \A i \in BoneIds :
              /\ WrittenIndices(TranslationWrites(bones, highlightedBone, i))
                   = BoneSlotElements(i, 3) \cup HandleSlotElements(i, 3)
              /\ WrittenIndices(RotationWrites(bones, i))
                   = BoneSlotElements(i, 4) \cup HandleSlotElements(i, 4)

\* C12: the constructor expands the loader buffers of n bones to
\* boneIndices of length 10n, bonePositions of length 30n and
\* boneIndexAttribute of length 10n; the appended indices are distinct
\* values in 2n..10n-1, the 4 appended segments of bone i copy its base
\* segment, the index attribute of appended segment h of bone i is
\* n + 4i + h, the slot the translation and rotation generators fill for
\* handle h of bone i; and no rotateBone or highlight change alters the
\* buffers.
C12_DrawBuffers == []BuffersExpanded /\ [][buffers' = buffers]_vars

\* A rotateBone that moved a joint and then a highlight change have run on
\* a mesh of three bones whose base segments are the three different rest
\* lines of its bones.
C12_Witness ==
    /\ NumBones = 3
    /\ last.op = "highlight"
    /\ last.before = "rotateBone"
    /\ \E b \in BoneIds : bones[b].position # bones[b].initialPosition
    /\ \A i \in BoneIds :
           [c \in 0..5 |-> bonePositions[6 * i + c]]
             = ArrayFrom(bones[i].initialPosition \o bones[i].initialEndpoint)
    /\ \A i, j \in BoneIds :
           i # j => \E c \in 0..5 :
                        bonePositions[6 * i + c] # bonePositions[6 * j + c]

\* The rotational part of a transform: the transform without its
\* translation column.
RotationPart(m) == [k \in 1..16 |-> IF k \in 13..15 THEN 0 ELSE m[k]]

\* C13: after any sequence of rotateBone calls the rotation denoted by
\* every bone's world rotation is the rotational part of the chain
\* transform updatePositions builds for that bone, also when the local
\* rotations of the bone and of its ancestor do not commute.
C13_SameRotationOrder ==
    \A b \in BoneIds :
        QuatToMat4(bones[b].rotation) = RotationPart(ChainTransform(b))

====
